---- MODULE Spec2Model ----
(***************************************************************************)
(* Model of src/src/main.py: the GET handler HttpHandler (do_GET,          *)
(* send_html_file, send_static) and the server life cycle run().           *)
(*                                                                         *)
(* Strings are TLA+ strings; Len, SubSeq and \o act on them character by   *)
(* character, so urlparse, self.path[1:], posixpath.splitext and the path  *)
(* resolution of open() are computed on the characters of the request.     *)
(*                                                                         *)
(* Domain of the request targets: origin-form targets starting with one    *)
(* "/" (no scheme, no "//" network location), which is what http.server    *)
(* hands to do_GET in self.path.                                           *)
(***************************************************************************)
EXTENDS Integers, Sequences, FiniteSets, TLC

VARIABLES fs, phase, sock, log, request, resp

vars == <<fs, phase, sock, log, request, resp>>

(***************************************************************************)
(* Bounds                                                                  *)
(***************************************************************************)
\* Stand-in for the interpreter's recursion limit: the deepest nesting of
\* send_html_file calls before RecursionError is raised.
MaxDepth == 3
\* Number of requests served in one run of the server.
MaxRequests == 2
\* Number of files that can be opened but fail when read.
MaxIOErrors == 1

(***************************************************************************)
(* String helpers (str.find, str.rfind, str.startswith, str.lower)         *)
(***************************************************************************)
Char(s, i) == SubSeq(s, i, i)

\* s.find(c, from): least index >= from holding c, 0 when there is none
\* (indices are 1-based here, so 0 plays the part of Python's -1).
FindFrom(s, c, from) ==
    LET I == {i \in from..Len(s) : Char(s, i) = c}
    IN  IF I = {} THEN 0 ELSE CHOOSE i \in I : \A j \in I : i <= j

Find(s, c) == FindFrom(s, c, 1)

RFind(s, c) ==
    LET I == {i \in 1..Len(s) : Char(s, i) = c}
    IN  IF I = {} THEN 0 ELSE CHOOSE i \in I : \A j \in I : j <= i

StartsWith(s, p) == Len(s) >= Len(p) /\ SubSeq(s, 1, Len(p)) = p

LowerChar(c) ==
    LET i == Find("ABCDEFGHIJKLMNOPQRSTUVWXYZ", c)
    IN  IF i = 0 THEN c ELSE Char("abcdefghijklmnopqrstuvwxyz", i)

RECURSIVE Lower(_)
Lower(s) == IF Len(s) = 0 THEN ""
            ELSE LowerChar(Char(s, 1)) \o Lower(SubSeq(s, 2, Len(s)))

(***************************************************************************)
(* urllib.parse.urlparse(self.path), for a target with no scheme and no    *)
(* network location: the fragment is cut at the first "#", the query at    *)
(* the first "?", the parameters at the first ";" of the last segment.     *)
(***************************************************************************)
urlparse(url) ==
    LET h  == Find(url, "#")
        u1 == IF h = 0 THEN url ELSE SubSeq(url, 1, h - 1)
        fr == IF h = 0 THEN "" ELSE SubSeq(url, h + 1, Len(url))
        q  == Find(u1, "?")
        u2 == IF q = 0 THEN u1 ELSE SubSeq(u1, 1, q - 1)
        qs == IF q = 0 THEN "" ELSE SubSeq(u1, q + 1, Len(u1))
        sl == RFind(u2, "/")
        p  == FindFrom(u2, ";", IF sl = 0 THEN 1 ELSE sl)
        u3 == IF p = 0 THEN u2 ELSE SubSeq(u2, 1, p - 1)
        pa == IF p = 0 THEN "" ELSE SubSeq(u2, p + 1, Len(u2))
    IN  [path |-> u3, params |-> pa, query |-> qs, fragment |-> fr]

(***************************************************************************)
(* mimetypes.guess_type(file_path)                                         *)
(***************************************************************************)
\* posixpath.splitext: the extension starts at the last "." of the last
\* segment, unless that segment has only dots before it.
splitext(p) ==
    LET sep == RFind(p, "/")
        dot == RFind(p, ".")
    IN  IF dot > sep /\ \E i \in (sep + 1)..(dot - 1) : Char(p, i) # "."
        THEN [base |-> SubSeq(p, 1, dot - 1), ext |-> SubSeq(p, dot, Len(p))]
        ELSE [base |-> p, ext |-> ""]

\* The extension table, with the entries the source's comments name.
TypesMap ==
    [e \in {".html", ".css", ".jpg", ".js"} |->
        CASE e = ".html" -> "text/html"
          [] e = ".css"  -> "text/css"
          [] e = ".jpg"  -> "image/jpeg"
          [] e = ".js"   -> "application/javascript"]

\* Extensions that name an encoding, not a type.
EncodingsMap == {".gz", ".Z", ".bz2", ".xz"}

\* The type guess_type returns, "" standing for None.
guess_type(file_path) ==
    LET s1  == splitext(file_path)
        s2  == IF s1.ext \in EncodingsMap THEN splitext(s1.base) ELSE s1
        ext == Lower(s2.ext)
    IN  IF ext \in DOMAIN TypesMap THEN TypesMap[ext] ELSE ""

(***************************************************************************)
(* The filesystem, relative to the working directory                       *)
(***************************************************************************)
Files == {"templates/index.html", "templates/search.html",
          "templates/error.html", "error.html",
          "static/style.css", "static/unknownext.xyz", "main.py"}

FileStates == {"ok", "absent", "ioerror"}

\* The bytes of a file: every file has contents of its own.
Content(f) == "<bytes of " \o f \o ">"

RECURSIVE Split(_)
Split(s) ==
    LET i == Find(s, "/")
    IN  IF i = 0 THEN <<s>>
        ELSE <<SubSeq(s, 1, i - 1)>> \o Split(SubSeq(s, i + 1, Len(s)))

RECURSIVE Resolve(_, _)
Resolve(segs, stack) ==
    IF segs = <<>> THEN stack
    ELSE LET s == Head(segs)
         IN  Resolve(Tail(segs),
                 IF s = "" \/ s = "." THEN stack
                 ELSE IF s = ".."
                      THEN IF stack # <<>> /\ stack[Len(stack)] # ".."
                           THEN SubSeq(stack, 1, Len(stack) - 1)
                           ELSE Append(stack, "..")
                      ELSE Append(stack, s))

RECURSIVE Join(_)
Join(segs) == IF segs = <<>> THEN ""
              ELSE IF Len(segs) = 1 THEN segs[1]
              ELSE segs[1] \o "/" \o Join(Tail(segs))

\* The file a relative name denotes once the system has walked it.
Normalize(name) == Join(Resolve(Split(name), <<>>))

\* A name ending in "/" denotes a directory, which open() refuses.
CanOpen(name) ==
    /\ Len(name) > 0
    /\ Char(name, Len(name)) # "/"
    /\ Normalize(name) \in Files
    /\ fs[Normalize(name)] # "absent"

CanRead(name) == CanOpen(name) /\ fs[Normalize(name)] = "ok"

(***************************************************************************)
(* What is written on the connection                                       *)
(***************************************************************************)
StatusLine(c)  == [kind |-> "status", code |-> c, text |-> ""]
HeaderLine(v)  == [kind |-> "header", code |-> 0, text |-> v]
EndHeaders     == [kind |-> "end",    code |-> 0, text |-> ""]
Body(b)        == [kind |-> "body",   code |-> 0, text |-> b]

\* The handler's effects for one request: what it wrote, the names it
\* passed to open(), the routing branches it entered, the exception that
\* left do_GET ("" when none).
NoResp == [wire |-> <<>>, opened |-> <<>>, branch |-> <<>>, exc |-> ""]

(***************************************************************************)
(* HttpHandler                                                             *)
(***************************************************************************)
Enter(st, b) == [st EXCEPT !.branch = Append(@, b)]

\* send_html_file(filename, status): the status line and the header block
\* are written first, then the file is opened and read; any exception of
\* the open or the read makes the method call itself with 'error.html' and
\* 404.  A call nested deeper than MaxDepth raises RecursionError, which
\* every caller lets through, its call being inside the except clause.
RECURSIVE send_html_file(_, _, _, _)
send_html_file(st, filename, status, depth) ==
    IF depth > MaxDepth THEN [st EXCEPT !.exc = "RecursionError"]
    ELSE LET s1 == [st EXCEPT
                      !.wire = @ \o <<StatusLine(status),
                                      HeaderLine("text/html"), EndHeaders>>,
                      !.opened = Append(@, filename)]
         IN  IF CanRead(filename)
             THEN [s1 EXCEPT !.wire = Append(@, Body(Content(Normalize(filename))))]
             ELSE send_html_file(s1, "error.html", 404, depth + 1)

\* send_static(): the file is self.path without its first character; the
\* headers are written once the open has succeeded; any exception of the
\* open or the read goes to send_html_file('error.html', 404).
send_static(st, selfpath) ==
    LET file_path == SubSeq(selfpath, 2, Len(selfpath))
        mime_type == guess_type(file_path)
        s1 == [st EXCEPT !.opened = Append(@, file_path)]
        s2 == [s1 EXCEPT
                 !.wire = @ \o <<StatusLine(200),
                                 HeaderLine(IF mime_type # "" THEN mime_type
                                            ELSE "application/octet-stream"),
                                 EndHeaders>>]
    IN  IF ~CanOpen(file_path) THEN send_html_file(s1, "error.html", 404, 1)
        ELSE IF CanRead(file_path)
             THEN [s2 EXCEPT !.wire = Append(@, Body(Content(Normalize(file_path))))]
             ELSE send_html_file(s2, "error.html", 404, 1)

\* Variant: the last branch answers with 404.
do_GET_else404(selfpath) ==
    LET pr_url == urlparse(selfpath)
    IN  IF pr_url.path = "/"
        THEN send_html_file(Enter(NoResp, "index"), "templates/index.html", 200, 1)
        ELSE IF pr_url.path = "/search"
        THEN send_html_file(Enter(NoResp, "search"), "templates/search.html", 200, 1)
        ELSE IF StartsWith(pr_url.path, "/static/")
        THEN send_static(Enter(NoResp, "static"), selfpath)
        ELSE send_html_file(Enter(NoResp, "error"), "templates/error.html", 404, 1)

\* Variant: the tests are separate if statements, the else belonging to
\* the last of them.
do_GET_separate_ifs(selfpath) ==
    LET pr_url == urlparse(selfpath)
        a == IF pr_url.path = "/"
             THEN send_html_file(Enter(NoResp, "index"), "templates/index.html", 200, 1)
             ELSE NoResp
        b == IF pr_url.path = "/search"
             THEN send_html_file(Enter(a, "search"), "templates/search.html", 200, 1)
             ELSE a
    IN  IF StartsWith(pr_url.path, "/static/")
        THEN send_static(Enter(b, "static"), selfpath)
        ELSE send_html_file(Enter(b, "error"), "templates/error.html", 200, 1)

\* do_GET(): routing on the path component of self.path.
do_GET(selfpath) ==
    LET pr_url == urlparse(selfpath)
    IN  IF pr_url.path = "/"
        THEN send_html_file(Enter(NoResp, "index"), "templates/index.html", 200, 1)
        ELSE IF pr_url.path = "/search"
        THEN send_html_file(Enter(NoResp, "search"), "templates/search.html", 200, 1)
        ELSE IF StartsWith(pr_url.path, "/static/")
        THEN send_static(Enter(NoResp, "static"), selfpath)
        ELSE send_html_file(Enter(NoResp, "error"), "templates/error.html", 200, 1)

\* The request targets the model sends (values of self.path).
RequestURLs == {"/", "/?q=1", "/;p", "/search", "/search?name=query",
                "/search/", "/static", "/index.html", "/nope",
                "/static/", "/static/style.css", "/static/style.css?v=1",
                "/static/unknownext.xyz", "/static/missing.css",
                "/static/../main.py"}

(***************************************************************************)
(* run()                                                                   *)
(***************************************************************************)
\* The two messages printed once the server object exists.
run_startup == <<"startup_msg", "hint_msg">>

\* The except KeyboardInterrupt clause.
run_except == <<"shutdown_msg">>

\* Variant: the finally clause without server_close().
run_finally_noclose == <<"done_msg">>

\* The finally clause: server_close(), then the completion message.
run_finally == <<"server_close", "done_msg">>

Count(seq, e) == Cardinality({i \in 1..Len(seq) : seq[i] = e})

Init ==
    /\ fs \in [Files -> FileStates]
    /\ Cardinality({f \in Files : fs[f] = "ioerror"}) <= MaxIOErrors
    /\ phase = "start"
    /\ sock = "none"
    /\ log = <<>>
    /\ request = ""
    /\ resp = NoResp

\* server_class(server_address, handler_class) binds and listens.
CreateServer ==
    /\ phase = "start"
    /\ phase' = "serving"
    /\ sock' = "bound"
    /\ log' = log \o run_startup
    /\ UNCHANGED <<fs, request, resp>>

\* The constructor raises (address in use): the exception leaves run()
\* before the try statement; no listener exists.
CreateServerFails ==
    /\ phase = "start"
    /\ phase' = "failed"
    /\ UNCHANGED <<fs, sock, log, request, resp>>

\* serve_forever() accepts one connection and calls do_GET on it.  An
\* exception leaving do_GET is reported by the server, which goes on.
HandleRequest ==
    /\ phase = "serving"
    /\ sock = "bound"
    /\ Count(log, "request") < MaxRequests
    /\ \E url \in RequestURLs :
          /\ request' = url
          /\ resp' = do_GET(url)
    /\ log' = Append(log, "request")
    /\ UNCHANGED <<fs, phase, sock>>

Leave(events, ph) ==
    /\ phase = "serving"
    /\ log' = log \o events
    /\ sock' = IF Count(events, "server_close") > 0 THEN "closed" ELSE sock
    /\ phase' = ph
    /\ UNCHANGED <<fs, request, resp>>

\* Ctrl+C while serving: except clause, finally clause, normal return.
Interrupt == Leave(run_except \o run_finally, "exited")

\* serve_forever() ends with another exception: finally clause, then the
\* exception leaves run().
ServeError == Leave(run_finally, "raised")

Next ==
    \/ CreateServer
    \/ CreateServerFails
    \/ HandleRequest
    \/ Interrupt
    \/ ServeError

Spec == Init /\ [][Next]_vars

(***************************************************************************)
(* Properties                                                              *)
(***************************************************************************)
\* A request has been handled; resp holds what its handling did.
Handled == request # ""

\* The path component of the handled request.
ReqPath == urlparse(request).path

\* The file the static branch is specified to serve: the path component
\* without its leading "/".
ReqFile == SubSeq(ReqPath, 2, Len(ReqPath))

\* No file of that name exists (the name does not denote a directory).
Absent(name) ==
    /\ Len(name) > 0
    /\ Char(name, Len(name)) # "/"
    /\ Normalize(name) \in Files => fs[Normalize(name)] = "absent"

Kinds(w) == [i \in 1..Len(w) |-> w[i].kind]

Page(status, mime, f) ==
    <<StatusLine(status), HeaderLine(mime), EndHeaders, Body(Content(f))>>

\* C1: one call of the GET handler writes exactly one response: one status
\* line, one Content-Type header, one header terminator, then the body.
C1_ExactlyOneResponse ==
    Handled => Kinds(resp.wire) = <<"status", "header", "end", "body">>

\* C2: when the file resolved for the request cannot be opened or read, the
\* first status line on the connection is 404 and the header is text/html.
C2_FailureAnswers404 ==
    (Handled /\ ~CanRead(resp.opened[1]))
        => /\ Len(resp.wire) >= 2
           /\ resp.wire[1] = StatusLine(404)
           /\ resp.wire[2] = HeaderLine("text/html")

\* C3: two request targets with the same path component get the same file
\* and the same response, whatever their query strings.
C3_QueryIndependent ==
    Handled =>
        \A u \in RequestURLs :
            urlparse(u).path = ReqPath
                => /\ do_GET(u).wire = resp.wire
                   /\ do_GET(u).opened = resp.opened

\* C4: a '/static/...' request whose file is absent is answered with 404
\* and the bytes of templates/error.html.
C4_StaticMissingServesTemplateError ==
    (/\ Handled
     /\ StartsWith(ReqPath, "/static/")
     /\ Absent(ReqFile)
     /\ fs["templates/error.html"] = "ok")
        => resp.wire = Page(404, "text/html", "templates/error.html")

\* C5: a path that is not '/', not '/search' and does not start with
\* '/static/' is answered, when templates/error.html is readable, with
\* status 200, text/html and the bytes of templates/error.html; no 404 is
\* written.
C5_UnmatchedServesErrorPage200 ==
    (/\ Handled
     /\ ReqPath \notin {"/", "/search"}
     /\ ~StartsWith(ReqPath, "/static/")
     /\ fs["templates/error.html"] = "ok")
        => /\ resp.wire = Page(200, "text/html", "templates/error.html")
           /\ \A i \in 1..Len(resp.wire) : resp.wire[i].code # 404
           /\ resp.exc = ""

C5_Witness ==
    /\ request = "/static"
    /\ fs["templates/error.html"] = "ok"
    /\ resp.branch = <<"error">>
    /\ resp.wire[1] = StatusLine(200)

\* C6: a '/static/...' request whose file (the path without its leading
\* '/') is readable is answered with 200, the file's bytes and the MIME type
\* of its extension, application/octet-stream when the table has none.
C6_StaticServesFile ==
    (/\ Handled
     /\ StartsWith(ReqPath, "/static/")
     /\ CanRead(ReqFile))
        => resp.wire = Page(200,
                            IF guess_type(ReqFile) # "" THEN guess_type(ReqFile)
                            ELSE "application/octet-stream",
                            Normalize(ReqFile))

\* The branch the routing rules give a path.
RouteOf(path) ==
    CASE path = "/" -> "index"
      [] path = "/search" -> "search"
      [] path \notin {"/", "/search"} /\ StartsWith(path, "/static/") -> "static"
      [] OTHER -> "error"

\* C7: '/' is answered with 200, text/html and templates/index.html when it
\* is readable, '/search' likewise with templates/search.html, and exactly
\* one routing branch is taken for any path.
C7_ExactRoutes ==
    Handled =>
        /\ (ReqPath = "/" /\ fs["templates/index.html"] = "ok")
              => resp.wire = Page(200, "text/html", "templates/index.html")
        /\ (ReqPath = "/search" /\ fs["templates/search.html"] = "ok")
              => resp.wire = Page(200, "text/html", "templates/search.html")
        /\ resp.branch = <<RouteOf(ReqPath)>>

C7_Witness ==
    /\ request = "/search?name=query"
    /\ fs["templates/search.html"] = "ok"
    /\ resp.wire = Page(200, "text/html", "templates/search.html")

\* C8: once the listener exists, every exit from the serving loop closes
\* the socket: on an interrupt the log ends with shutdown message, close,
\* completion message and run() returns; on another exception the close
\* still comes before the exception leaves run(); the socket is closed
\* exactly once and no request is accepted after the close.
C8_SocketReleased ==
    /\ Count(log, "server_close") <= 1
    /\ phase \in {"exited", "raised"}
          => /\ sock = "closed"
             /\ Count(log, "server_close") = 1
    /\ phase = "exited"
          => /\ Len(log) >= 3
             /\ SubSeq(log, Len(log) - 2, Len(log))
                   = <<"shutdown_msg", "server_close", "done_msg">>
    /\ phase = "raised" => Count(log, "shutdown_msg") = 0
    /\ \A i, j \in 1..Len(log) :
          (i < j /\ log[i] = "server_close") => log[j] # "request"
    /\ sock = "closed" => phase \in {"exited", "raised"}

C8_Witness ==
    /\ phase = "exited"
    /\ sock = "closed"
    /\ Count(log, "request") = MaxRequests

\* C9: when the read of the error page itself fails no further fallback is
\* attempted: the error page is opened at most once after the first failure
\* and the handler ends without an exception.
C9_BoundedFallback ==
    Handled => (Len(resp.opened) <= 2 /\ resp.exc = "")

\* The served set: the three templates, the error page of the fallback,
\* and everything inside static/.
InServedSet(name) ==
    LET n == Normalize(name)
    IN  \/ n \in {"templates/index.html", "templates/search.html",
                  "templates/error.html", "error.html"}
        \/ n = "static"
        \/ StartsWith(n, "static/")

\* C10: every file the handler opens lies in the served set; the static
\* branch never opens a file outside static/.
C10_OpensOnlyServedFiles ==
    \A i \in 1..Len(resp.opened) : InServedSet(resp.opened[i])

====
